---- MODULE Spec2Model ----
(***************************************************************************)
(* Gossip round protocol model of kitsune_p2p (gossip/model):              *)
(*   RoundMachine  (round_model.rs)  the per-pair round state machine,     *)
(*   PeerMachine   (peer_model.rs)   the per-node coordinator of rounds.   *)
(* Nine specifications are built from the two transition functions:        *)
(*   RoundSpec  one RoundMachine fed arbitrary actions from any phase,     *)
(*   RoundHistSpec  one round from Started(false), recording MustSend,     *)
(*   Spec       one PeerMachine fed arbitrary NodeActions,                 *)
(*   HistSpec   the same, recording which peers' sessions have finished,   *)
(*   OriginSpec the same, recording which message created each session,    *)
(*   ReplaySpec the same, replaying the fixed event sequences of scenarios,*)
(*   NetSpec    several PeerMachines joined by FIFO links (no timeouts),   *)
(*   TieSpec    the network under mutual initiation and one tie-break,     *)
(*   LiveSpec   the same network with timeouts and weak fairness.          *)
(***************************************************************************)
EXTENDS Integers, Sequences, FiniteSets, TLC

VARIABLES
    gossip_type,  \* RoundMachine.0 : GossipType of the machine under test
    state,        \* Spec: the PeerState of the coordinator
    last,         \* Spec: the last NodeAction, the state before it, its result
    phase,        \* RoundSpec: the RoundPhase of the round
    rlast,        \* RoundSpec: the last RoundAction, the phase before it, its result
    nodes,        \* NetSpec: NodeId -> PeerState
    chan,         \* NetSpec: <<src, dst>> -> sequence of RoundMsg in flight
    initiated,    \* NetSpec: number of SetInitiate calls made so far
    finished,     \* HistSpec: peers whose session finished, none created since
    must_sent,    \* RoundHistSpec: phases in which MustSend succeeded on the round
    origin,       \* OriginSpec: peer -> the handshake message that created its session
    tie_lost,     \* TieSpec: the nodes that received TieBreakLoser
    wire_count,   \* RoundHistSpec: wire messages the round has accepted
    script,       \* ReplaySpec: the events of the scenario still to be applied
    trace         \* ReplaySpec: the events applied, their results and states

vars == <<gossip_type, state, last, phase, rlast, nodes, chan, initiated, finished,
          must_sent, origin, tie_lost, wire_count, script, trace>>

---------------------------------------------------------------------------
(* Types *)

PEERS == 3
NodeId == 0 .. (PEERS - 1)

GossipType == {"Recent", "Historical"}

Started(must_send) == <<"Started", must_send>>
AgentDiffReceived == <<"AgentDiffReceived">>
AgentsReceived(must_send) == <<"AgentsReceived", must_send>>
OpDiffReceived == <<"OpDiffReceived">>
Finished == <<"Finished">>

RoundPhase ==
    {Started(b) : b \in BOOLEAN} \cup {AgentsReceived(b) : b \in BOOLEAN}
        \cup {AgentDiffReceived, OpDiffReceived, Finished}

RoundMsg == {"Initiate", "Accept", "AgentDiff", "Agents", "OpDiff", "Ops", "Close"}

Msg(msg) == <<"Msg", msg>>
RoundMustSend == <<"MustSend">>
RoundAction == {Msg(m) : m \in RoundMsg} \cup {RoundMustSend}

None == <<>>
Some(x) == <<x>>
Tgt(cert, tie_break) == [cert |-> cert, tie_break |-> tie_break]

SetInitiate(with_node, tie_break) == <<"SetInitiate", with_node, tie_break>>
Timeout(peer) == <<"Timeout", peer>>
TieBreakLoser(peer) == <<"TieBreakLoser", peer>>
Incoming(from, msg) == <<"Incoming", from, msg>>
MustSend(peer) == <<"MustSend", peer>>

node_id(action) == action[2]

into_round_action(action) ==
    IF action[1] = "Incoming" THEN Some(Msg(action[3]))
    ELSE IF action[1] = "MustSend" THEN Some(RoundMustSend)
    ELSE None

---------------------------------------------------------------------------
(* RoundMachine *)

RoundOk(p, fx) == [ok |-> TRUE, phase |-> p, fx |-> fx, err |-> ""]
RoundErr(e) == [ok |-> FALSE, err |-> e]

is_terminal(p) == p = Finished

\* patterns of three of the match arms (lines 126, 132, 137)
arm_recent_opdiff_any_started(gt, msg, p) ==
    gt = "Recent" /\ msg = "OpDiff" /\ p \in {Started(TRUE), Started(FALSE), AgentsReceived(TRUE)}

arm_recent_opdiff_send(gt, msg, p) ==
    gt = "Recent" /\ msg = "OpDiff" /\ p \in {Started(TRUE), AgentsReceived(TRUE)}

arm_historical_opdiff_must_send(gt, msg, p) ==
    gt = "Historical" /\ msg = "OpDiff" /\ p = Started(TRUE)

arm_historical_opdiff(gt, msg, p) ==
    gt = "Historical" /\ msg = "OpDiff" /\ p[1] = "Started"

arm_terminal_after_close(gt, msg, p) == p = Finished /\ msg # "Close"

arm_terminal(gt, msg, p) == p = Finished

\* the match arms are tried in the order of the source
RoundMsgTransition(gt, msg, p) ==
    IF gt = "Recent" /\ msg = "AgentDiff" /\ p = Started(TRUE)
        THEN RoundOk(AgentDiffReceived, <<"Agents">>)
    ELSE IF gt = "Recent" /\ msg = "AgentDiff" /\ p = Started(FALSE)
        THEN RoundOk(AgentsReceived(FALSE), <<"OpDiff">>)
    ELSE IF gt = "Recent" /\ msg = "Agents" /\ p = AgentDiffReceived
        THEN RoundOk(AgentsReceived(FALSE), <<"OpDiff">>)
    ELSE IF arm_recent_opdiff_send(gt, msg, p)
        THEN RoundOk(OpDiffReceived, <<"Ops">>)
    ELSE IF gt = "Recent" /\ msg = "OpDiff" /\ p = AgentsReceived(FALSE)
        THEN RoundOk(Finished, <<>>)
    ELSE IF arm_historical_opdiff(gt, msg, p)
        THEN RoundOk(OpDiffReceived, <<"Ops">>)
    ELSE IF gt = "Recent" /\ msg = "Ops" /\ p = OpDiffReceived
        THEN RoundOk(Finished, <<>>)
    ELSE IF gt = "Historical" /\ msg = "Ops" /\ p = OpDiffReceived
        THEN RoundOk(Finished, <<>>)
    ELSE IF arm_terminal(gt, msg, p)
        THEN RoundErr("terminal")
    ELSE IF msg = "Close"
        THEN RoundOk(Finished, <<>>)
    ELSE RoundErr("invalid transition")

RoundMustSendTransition_started_only(gt, p) ==
    IF p[1] = "Started"
        THEN IF p[2]
                THEN RoundErr("must_send already set")
                ELSE RoundOk(<<p[1], TRUE>>, <<>>)
        ELSE RoundOk(p, <<>>)

RoundMustSendTransition_idempotent(gt, p) ==
    IF \/ gt = "Recent" /\ p[1] \in {"Started", "AgentsReceived"}
       \/ gt = "Historical" /\ p[1] = "Started"
        THEN RoundOk(<<p[1], TRUE>>, <<>>)
        ELSE RoundOk(p, <<>>)

RoundMustSendTransition(gt, p) ==
    IF \/ gt = "Recent" /\ p[1] \in {"Started", "AgentsReceived"}
       \/ gt = "Historical" /\ p[1] = "Started"
        THEN IF p[2]
                THEN RoundErr("must_send already set")
                ELSE RoundOk(<<p[1], TRUE>>, <<>>)
        ELSE RoundOk(p, <<>>)

RoundTransition(gt, p, action) ==
    IF action[1] = "Msg"
        THEN RoundMsgTransition(gt, action[2], p)
        ELSE RoundMustSendTransition(gt, p)

---------------------------------------------------------------------------
(* PeerMachine *)

PeerState_new == [rounds |-> <<>>, initiate_tgt |-> None]

contains_key(rounds, k) == k \in DOMAIN rounds
remove(rounds, k) == [p \in DOMAIN rounds \ {k} |-> rounds[p]]
insert(rounds, k, v) == [p \in DOMAIN rounds \cup {k} |-> IF p = k THEN v ELSE rounds[p]]

\* state.initiate_tgt.as_ref().map(|t| &t.cert) == Some(&peer)
tgt_is(s, peer) == s.initiate_tgt # None /\ s.initiate_tgt[1].cert = peer

finish_round_keep_tgt(s, peer) ==
    [rounds |-> remove(s.rounds, peer), initiate_tgt |-> s.initiate_tgt]

finish_round_clear_tgt(s, peer) ==
    [rounds |-> remove(s.rounds, peer), initiate_tgt |-> None]

finish_round(s, peer) ==
    [rounds |-> remove(s.rounds, peer),
     initiate_tgt |-> IF tgt_is(s, peer) THEN None ELSE s.initiate_tgt]

Ok(s, fx) == [ok |-> TRUE, state |-> s, fx |-> fx, err |-> ""]
Err(e) == [ok |-> FALSE, err |-> e]

first_diff_always_agents(gt) == "AgentDiff"

first_diff(gt) == IF gt = "Recent" THEN "AgentDiff" ELSE "OpDiff"

OnSetInitiate_drop_tie_break(gt, s, with_node, tie_break) ==
    Ok(IF s.initiate_tgt = None
          THEN [s EXCEPT !.initiate_tgt = Some(Tgt(with_node, FALSE))]
          ELSE s,
       <<<<with_node, "Initiate">>>>)

OnSetInitiate_overwrite(gt, s, with_node, tie_break) ==
    Ok([s EXCEPT !.initiate_tgt = Some(Tgt(with_node, tie_break))],
       <<<<with_node, "Initiate">>>>)

OnSetInitiate(gt, s, with_node, tie_break) ==
    Ok(IF s.initiate_tgt = None
          THEN [s EXCEPT !.initiate_tgt = Some(Tgt(with_node, tie_break))]
          ELSE s,
       <<<<with_node, "Initiate">>>>)

OnTimeout_keep_round(gt, s, peer) ==
    Ok([s EXCEPT !.initiate_tgt = IF tgt_is(s, peer) THEN None ELSE @], <<>>)

OnTimeout_keep_tgt(gt, s, peer) ==
    Ok([s EXCEPT !.rounds = remove(s.rounds, peer)], <<>>)

OnTimeout(gt, s, peer) ==
    Ok(finish_round([s EXCEPT !.rounds = remove(s.rounds, peer)], peer), <<>>)

OnTieBreakLoser_finish(gt, s, peer) ==
    IF s.initiate_tgt # None
        THEN IF s.initiate_tgt[1].cert = peer
                THEN Ok(finish_round(s, peer), <<>>)
                ELSE Err("tie break winner is not the initiate target")
        ELSE Err("there was no initiate target")

OnTieBreakLoser_take(gt, s, peer) ==
    IF s.initiate_tgt # None
        THEN Ok([s EXCEPT !.initiate_tgt = None], <<>>)
        ELSE Err("there was no initiate target")

OnTieBreakLoser_keep_tgt(gt, s, peer) ==
    IF s.initiate_tgt # None
        THEN IF s.initiate_tgt[1].cert = peer
                THEN Ok(s, <<>>)
                ELSE Err("tie break winner is not the initiate target")
        ELSE Err("there was no initiate target")

OnTieBreakLoser(gt, s, peer) ==
    IF s.initiate_tgt # None
        THEN IF s.initiate_tgt[1].cert = peer
                THEN Ok([s EXCEPT !.initiate_tgt = None], <<>>)
                ELSE Err("tie break winner is not the initiate target")
        ELSE Err("there was no initiate target")

OnIncomingInitiate_no_tgt_check(gt, s, from) ==
    IF contains_key(s.rounds, from)
        THEN Ok(s, <<>>)
    ELSE Ok([s EXCEPT !.rounds = insert(s.rounds, from, Started(FALSE))],
            <<<<from, "Accept">>, <<from, first_diff(gt)>>>>)

OnIncomingInitiate(gt, s, from) ==
    IF contains_key(s.rounds, from)
        THEN Ok(s, <<>>)
    ELSE IF tgt_is(s, from)
        THEN Ok(s, <<>>)
    ELSE Ok([s EXCEPT !.rounds = insert(s.rounds, from, Started(FALSE))],
            <<<<from, "Accept">>, <<from, first_diff(gt)>>>>)

OnIncomingAccept_replace(gt, s, from) ==
    IF ~tgt_is(s, from)
        THEN Err("invalid Accept from node that is not initiate_tgt")
    ELSE Ok([s EXCEPT !.rounds = insert(s.rounds, from, Started(FALSE))],
            <<<<from, first_diff(gt)>>>>)

OnIncomingAccept_unsolicited(gt, s, from) ==
    IF contains_key(s.rounds, from)
        THEN Ok(s, <<>>)
    ELSE Ok([s EXCEPT !.rounds = insert(s.rounds, from, Started(FALSE))],
            <<<<from, first_diff(gt)>>>>)

OnIncomingAccept(gt, s, from) ==
    IF contains_key(s.rounds, from)
        THEN Ok(s, <<>>)
    ELSE IF ~tgt_is(s, from)
        THEN Err("invalid Accept from node that is not initiate_tgt")
    ELSE Ok([s EXCEPT !.rounds = insert(s.rounds, from, Started(FALSE))],
            <<<<from, first_diff(gt)>>>>)

OnIncomingClose_requires_round(gt, s, from) ==
    IF contains_key(s.rounds, from)
        THEN Ok([s EXCEPT !.rounds = remove(s.rounds, from)], <<>>)
        ELSE Err("no round")

OnIncomingClose_echo(gt, s, from) ==
    Ok([s EXCEPT !.rounds = remove(s.rounds, from)], <<<<from, "Close">>>>)

OnIncomingClose(gt, s, from) ==
    Ok([s EXCEPT !.rounds = remove(s.rounds, from)], <<>>)

OnRoundAction_default_round(gt, s, action) ==
    LET from == node_id(action)
        ra == into_round_action(action)
    IN  IF ra = None
            THEN Err("nope")
        ELSE LET cur == IF contains_key(s.rounds, from) THEN s.rounds[from] ELSE Started(FALSE)
                 r == RoundTransition(gt, cur, ra[1])
                 removed == [s EXCEPT !.rounds = remove(s.rounds, from)]
             IN  IF ~r.ok
                    THEN Err(r.err)
                 ELSE IF r.phase = Finished
                    THEN Ok(finish_round(removed, from),
                            [i \in DOMAIN r.fx |-> <<from, r.fx[i]>>])
                 ELSE Ok([removed EXCEPT !.rounds = insert(removed.rounds, from, r.phase)],
                         [i \in DOMAIN r.fx |-> <<from, r.fx[i]>>])

OnRoundAction_store_finished(gt, s, action) ==
    LET from == node_id(action)
        ra == into_round_action(action)
    IN  IF ra = None
            THEN Err("nope")
        ELSE IF ~contains_key(s.rounds, from)
            THEN Err("no round")
        ELSE LET r == RoundTransition(gt, s.rounds[from], ra[1])
             IN  IF ~r.ok
                    THEN Err(r.err)
                 ELSE Ok([s EXCEPT !.rounds = insert(s.rounds, from, r.phase)],
                         [i \in DOMAIN r.fx |-> <<from, r.fx[i]>>])

OnRoundAction(gt, s, action) ==
    LET from == node_id(action)
        ra == into_round_action(action)
    IN  IF ra = None
            THEN Err("nope")
        ELSE IF ~contains_key(s.rounds, from)
            THEN Err("no round")
        ELSE LET r == RoundTransition(gt, s.rounds[from], ra[1])
                 removed == [s EXCEPT !.rounds = remove(s.rounds, from)]
             IN  IF ~r.ok
                    THEN Err(r.err)
                 ELSE IF r.phase = Finished
                    THEN Ok(finish_round(removed, from),
                            [i \in DOMAIN r.fx |-> <<from, r.fx[i]>>])
                 ELSE Ok([removed EXCEPT !.rounds = insert(removed.rounds, from, r.phase)],
                         [i \in DOMAIN r.fx |-> <<from, r.fx[i]>>])

PeerTransition(gt, s, action) ==
    IF action[1] = "SetInitiate"
        THEN OnSetInitiate(gt, s, action[2], action[3])
    ELSE IF action[1] = "Timeout"
        THEN OnTimeout(gt, s, action[2])
    ELSE IF action[1] = "TieBreakLoser"
        THEN OnTieBreakLoser(gt, s, action[2])
    ELSE IF action[1] = "Incoming" /\ action[3] = "Initiate"
        THEN OnIncomingInitiate(gt, s, action[2])
    ELSE IF action[1] = "Incoming" /\ action[3] = "Accept"
        THEN OnIncomingAccept(gt, s, action[2])
    ELSE IF action[1] = "Incoming" /\ action[3] = "Close"
        THEN OnIncomingClose(gt, s, action[2])
    ELSE OnRoundAction(gt, s, action)

---------------------------------------------------------------------------
(* Idle values of the variables a specification does not use *)

NoEvent == [action |-> <<"None">>, pre |-> PeerState_new, res |-> Ok(PeerState_new, <<>>)]
NoRoundEvent == [action |-> <<"None">>, pre |-> Finished, res |-> RoundOk(Finished, <<>>)]

IdlePeer == state = PeerState_new /\ last = NoEvent /\ finished = {}
IdleRound == phase = Finished /\ rlast = NoRoundEvent
IdleNet ==
    /\ nodes = <<>>
    /\ chan = <<>>
    /\ initiated = 0
IdleHist ==
    /\ must_sent = {}
    /\ origin = <<>>
    /\ tie_lost = {}
    /\ wire_count = 0
    /\ script = <<>>
    /\ trace = <<>>

---------------------------------------------------------------------------
(* RoundSpec: one RoundMachine, any starting phase, any action *)

RoundInit ==
    /\ gossip_type \in GossipType
    /\ phase \in RoundPhase
    /\ rlast = NoRoundEvent
    /\ IdlePeer /\ IdleNet /\ IdleHist

RoundApply(action) ==
    LET r == RoundTransition(gossip_type, phase, action)
    IN  /\ rlast' = [action |-> action, pre |-> phase, res |-> r]
        /\ phase' = IF r.ok THEN r.phase ELSE phase
        /\ UNCHANGED <<gossip_type, state, last, nodes, chan, initiated, finished, must_sent, origin, tie_lost,
                       wire_count, script, trace>>

RoundMsgStep == \E m \in RoundMsg : RoundApply(Msg(m))
RoundMustSendStep == RoundApply(RoundMustSend)

RoundNext == RoundMsgStep \/ RoundMustSendStep

RoundSpec == RoundInit /\ [][RoundNext]_vars

---------------------------------------------------------------------------
(* RoundHistSpec: one round from the phase in which the PeerMachine        *)
(* creates every session, Started(false), with the history of the phases   *)
(* in which a MustSend returned Ok and the number of wire messages the     *)
(* round has accepted.                                                     *)

\* wire_count stops counting here; a round accepts fewer messages
MaxWireCount == 6

RoundHistInit ==
    /\ gossip_type \in GossipType
    /\ phase = Started(FALSE)
    /\ rlast = NoRoundEvent
    /\ must_sent = {}
    /\ wire_count = 0
    /\ origin = <<>>
    /\ tie_lost = {}
    /\ script = <<>>
    /\ trace = <<>>
    /\ IdlePeer /\ IdleNet

RoundHistApply(action) ==
    LET r == RoundTransition(gossip_type, phase, action)
    IN  /\ rlast' = [action |-> action, pre |-> phase, res |-> r, sent |-> must_sent]
        /\ phase' = IF r.ok THEN r.phase ELSE phase
        /\ must_sent' = IF r.ok /\ action = RoundMustSend
                           THEN must_sent \cup {phase[1]}
                           ELSE must_sent
        /\ wire_count' = IF r.ok /\ action[1] = "Msg" /\ wire_count < MaxWireCount
                            THEN wire_count + 1
                            ELSE wire_count
        /\ UNCHANGED <<gossip_type, state, last, nodes, chan, initiated, finished,
                       origin, tie_lost, script, trace>>

RoundHistMsgStep == \E m \in RoundMsg : RoundHistApply(Msg(m))
RoundHistMustSendStep == RoundHistApply(RoundMustSend)

RoundHistNext == RoundHistMsgStep \/ RoundHistMustSendStep

RoundHistSpec == RoundHistInit /\ [][RoundHistNext]_vars

---------------------------------------------------------------------------
(* Spec: one PeerMachine from PeerState::new(), any NodeAction *)

Init ==
    /\ gossip_type \in GossipType
    /\ state = PeerState_new
    /\ last = NoEvent
    /\ finished = {}
    /\ IdleRound /\ IdleNet /\ IdleHist

Apply_keep_partial(action) ==
    LET r == PeerTransition(gossip_type, state, action)
    IN  /\ last' = [action |-> action, pre |-> state, res |-> r]
        /\ state' = IF r.ok
                       THEN r.state
                       ELSE [state EXCEPT !.rounds = remove(@, node_id(action))]
        /\ UNCHANGED <<gossip_type, phase, rlast, nodes, chan, initiated, finished,
                       must_sent, origin, tie_lost,
                       wire_count, script, trace>>

Apply(action) ==
    LET r == PeerTransition(gossip_type, state, action)
    IN  /\ last' = [action |-> action, pre |-> state, res |-> r]
        /\ state' = IF r.ok THEN r.state ELSE state
        /\ UNCHANGED <<gossip_type, phase, rlast, nodes, chan, initiated, finished, must_sent, origin, tie_lost,
                       wire_count, script, trace>>

requestInitiate == \E p \in NodeId, tb \in BOOLEAN : Apply(SetInitiate(p, tb))
onTimeout == \E p \in NodeId : Apply(Timeout(p))
onTieBreakLoser == \E p \in NodeId : Apply(TieBreakLoser(p))
onIncoming == \E p \in NodeId, m \in RoundMsg : Apply(Incoming(p, m))
onMustSend == \E p \in NodeId : Apply(MustSend(p))

Next == requestInitiate \/ onTimeout \/ onTieBreakLoser \/ onIncoming \/ onMustSend

Spec == Init /\ [][Next]_vars

---------------------------------------------------------------------------
(* HistSpec: Spec with a history of the sessions that ran to their end.    *)
(* A peer enters finished when an Incoming or MustSend action removes its  *)
(* session (the round reached Finished, or was closed); it leaves when a   *)
(* session for it is created again.                                        *)

HistApply(action) ==
    LET r == PeerTransition(gossip_type, state, action)
        post == IF r.ok THEN r.state ELSE state
        p == node_id(action)
    IN  /\ last' = [action |-> action, pre |-> state, res |-> r, fin |-> finished]
        /\ state' = post
        /\ finished' =
            IF contains_key(state.rounds, p) /\ ~contains_key(post.rounds, p)
                  /\ action[1] \in {"Incoming", "MustSend"}
               THEN finished \cup {p}
            ELSE IF contains_key(post.rounds, p)
               THEN finished \ {p}
            ELSE finished
        /\ UNCHANGED <<gossip_type, phase, rlast, nodes, chan, initiated,
                       must_sent, origin, tie_lost,
                       wire_count, script, trace>>

HistRequestInitiate == \E p \in NodeId, tb \in BOOLEAN : HistApply(SetInitiate(p, tb))
HistOnTimeout == \E p \in NodeId : HistApply(Timeout(p))
HistOnTieBreakLoser == \E p \in NodeId : HistApply(TieBreakLoser(p))
HistOnIncoming == \E p \in NodeId, m \in RoundMsg : HistApply(Incoming(p, m))
HistOnMustSend == \E p \in NodeId : HistApply(MustSend(p))

HistNext ==
    HistRequestInitiate \/ HistOnTimeout \/ HistOnTieBreakLoser \/ HistOnIncoming \/ HistOnMustSend

HistSpec == Init /\ [][HistNext]_vars

---------------------------------------------------------------------------
(* OriginSpec: the PeerMachine of Spec with, for every live session, the   *)
(* handshake message whose arm inserted it: "Initiate" for a round the     *)
(* peer proposed, "Accept" for a round this node proposed; "Yielded" marks *)
(* an Accept-created session whose target a TieBreakLoser has given up.    *)

OriginApply(action) ==
    LET r == PeerTransition(gossip_type, state, action)
        post == IF r.ok THEN r.state ELSE state
    IN  /\ state' = post
        /\ origin' = [q \in DOMAIN post.rounds |->
                        IF q \notin DOMAIN state.rounds
                            THEN action[3]
                        ELSE IF r.ok /\ action = TieBreakLoser(q) /\ origin[q] = "Accept"
                            THEN "Yielded"
                        ELSE origin[q]]
        /\ UNCHANGED <<gossip_type, last, phase, rlast, nodes, chan, initiated, finished,
                       must_sent, tie_lost,
                       wire_count, script, trace>>

OriginRequestInitiate == \E p \in NodeId, tb \in BOOLEAN : OriginApply(SetInitiate(p, tb))
OriginOnTimeout == \E p \in NodeId : OriginApply(Timeout(p))
OriginOnTieBreakLoser == \E p \in NodeId : OriginApply(TieBreakLoser(p))
OriginOnIncoming == \E p \in NodeId, m \in RoundMsg : OriginApply(Incoming(p, m))
OriginOnMustSend == \E p \in NodeId : OriginApply(MustSend(p))

OriginNext ==
    \/ OriginRequestInitiate
    \/ OriginOnTimeout
    \/ OriginOnTieBreakLoser
    \/ OriginOnIncoming
    \/ OriginOnMustSend

OriginSpec == Init /\ [][OriginNext]_vars

---------------------------------------------------------------------------
(* ReplaySpec: one PeerMachine from PeerState::new() replaying a fixed     *)
(* sequence of events, as scenario1 does: each event is applied to the     *)
(* state the previous one returned and the replay stops at the first Err   *)
(* (the unwrap() of the test).                                             *)

\* self-initiated full round with peer b (scenario1)
ScenarioA(b, tie_break) ==
    << SetInitiate(b, tie_break), Incoming(b, "Accept"), Incoming(b, "AgentDiff"),
       Incoming(b, "Agents"), Incoming(b, "OpDiff"), Incoming(b, "Ops") >>

\* remotely initiated short round with peer p, with or without a MustSend
ScenarioB(p, with_must_send) ==
    << Incoming(p, "Initiate") >>
    \o (IF with_must_send THEN << MustSend(p) >> ELSE << >>)
    \o << Incoming(p, "OpDiff"), Incoming(p, "Ops") >>

Scenarios ==
    { ScenarioA(b, x) : b \in NodeId, x \in BOOLEAN }
    \cup { ScenarioB(p, m) : p \in NodeId, m \in BOOLEAN }

ReplayInit ==
    /\ gossip_type \in GossipType
    /\ state = PeerState_new
    /\ last = NoEvent
    /\ finished = {}
    /\ script \in Scenarios
    /\ trace = << >>
    /\ must_sent = {}
    /\ origin = << >>
    /\ tie_lost = {}
    /\ wire_count = 0
    /\ IdleRound /\ IdleNet

ReplayStep ==
    /\ script # << >>
    /\ LET action == Head(script)
           r == PeerTransition(gossip_type, state, action)
           post == IF r.ok THEN r.state ELSE state
       IN  /\ last' = [action |-> action, pre |-> state, res |-> r]
           /\ state' = post
           /\ trace' = Append(trace, [action |-> action, res |-> r, post |-> post])
           /\ script' = IF r.ok THEN Tail(script) ELSE << >>
    /\ UNCHANGED <<gossip_type, phase, rlast, nodes, chan, initiated, finished,
                   must_sent, origin, tie_lost, wire_count>>

ReplayNext == ReplayStep

ReplaySpec == ReplayInit /\ [][ReplayNext]_vars

---------------------------------------------------------------------------
(* NetSpec: PeerMachines of the same gossip type joined by FIFO links.     *)
(* Every effect (q, m) returned at node n is appended to the link n -> q   *)
(* and later delivered to q as Incoming {from: n, msg: m}.                 *)

MaxInitiate == 2
MaxLiveInitiate == 1

\* two coordinators, A = 0 and B = 1, each the other's peer
NetNodes == {0, 1}
Links == {l \in NetNodes \X NetNodes : l[1] # l[2]}

\* the links after node n has emitted the effects fx, in order
RECURSIVE send(_, _, _)
send(c, n, fx) ==
    IF fx = <<>>
        THEN c
        ELSE send([c EXCEPT ![<<n, Head(fx)[1]>>] = Append(@, Head(fx)[2])], n, Tail(fx))

NetInit ==
    /\ gossip_type \in GossipType
    /\ nodes = [n \in NetNodes |-> PeerState_new]
    /\ chan = [l \in Links |-> <<>>]
    /\ initiated = 0
    /\ IdlePeer /\ IdleRound /\ IdleHist

\* a local event of node n: it happens only where the coordinator accepts it
NetLocal(n, action) ==
    LET r == PeerTransition(gossip_type, nodes[n], action)
    IN  /\ r.ok
        /\ nodes' = [nodes EXCEPT ![n] = r.state]
        /\ chan' = send(chan, n, r.fx)

SetInitiateUpTo(max) ==
    \E n \in NetNodes : \E p \in NetNodes \ {n}, tb \in BOOLEAN :
        /\ initiated < max
        /\ initiated' = initiated + 1
        /\ NetLocal(n, SetInitiate(p, tb))
        /\ UNCHANGED <<gossip_type, state, last, phase, rlast, finished, must_sent, origin, tie_lost,
                       wire_count, script, trace>>

NetSetInitiate == SetInitiateUpTo(MaxInitiate)

NetMustSend ==
    \E n \in NetNodes : \E p \in NetNodes \ {n} :
        /\ NetLocal(n, MustSend(p))
        /\ nodes'[n] # nodes[n]
        /\ UNCHANGED <<gossip_type, state, last, phase, rlast, initiated, finished, must_sent, origin, tie_lost,
                       wire_count, script, trace>>

NetTieBreakLoser ==
    \E n \in NetNodes : \E p \in NetNodes \ {n} :
        /\ NetLocal(n, TieBreakLoser(p))
        /\ UNCHANGED <<gossip_type, state, last, phase, rlast, initiated, finished, must_sent, origin, tie_lost,
                       wire_count, script, trace>>

\* what node dst answers to the message at the head of the link src -> dst
DeliveryResult(src, dst) ==
    PeerTransition(gossip_type, nodes[dst], Incoming(src, Head(chan[<<src, dst>>])))

\* a failed delivery consumes the message and leaves the node as it was
Deliver(src, dst) ==
    /\ chan[<<src, dst>>] # <<>>
    /\ LET r == DeliveryResult(src, dst)
           popped == [chan EXCEPT ![<<src, dst>>] = Tail(@)]
       IN  /\ nodes' = IF r.ok THEN [nodes EXCEPT ![dst] = r.state] ELSE nodes
           /\ chan' = IF r.ok THEN send(popped, dst, r.fx) ELSE popped
    /\ UNCHANGED <<gossip_type, state, last, phase, rlast, initiated, finished, must_sent, origin, tie_lost,
                       wire_count, script, trace>>

NetDeliver == \E l \in Links : Deliver(l[1], l[2])

NetTimeout(n, p) ==
    /\ NetLocal(n, Timeout(p))
    /\ UNCHANGED <<gossip_type, state, last, phase, rlast, initiated, finished, must_sent, origin, tie_lost,
                       wire_count, script, trace>>

NetOnTimeout == \E n \in NetNodes : \E p \in NetNodes \ {n} : NetTimeout(n, p)

NetNext == NetSetInitiate \/ NetMustSend \/ NetTieBreakLoser \/ NetDeliver

NetSpec == NetInit /\ [][NetNext]_vars

LiveSetInitiate == SetInitiateUpTo(MaxLiveInitiate)

LiveNext ==
    LiveSetInitiate \/ NetMustSend \/ NetTieBreakLoser \/ NetDeliver \/ NetOnTimeout

LiveSpec ==
    /\ NetInit
    /\ [][LiveNext]_vars
    /\ \A l \in Links : WF_vars(Deliver(l[1], l[2]))
    /\ \A n \in NetNodes : \A p \in NetNodes \ {n} : WF_vars(NetTimeout(n, p))

---------------------------------------------------------------------------
(* TieSpec: mutual initiation.  Each of the two nodes calls SetInitiate     *)
(* toward the other once (node 0 first, the nodes being alike) before it    *)
(* has heard from the other; then the Initiates that crossed are delivered  *)
(* and one of the nodes receives TieBreakLoser, in any order.               *)
(* tie_lost holds <<loser, timely>>: timely tells that the winner's         *)
(* Initiate was still in flight when the loser gave up its target.          *)

TieSetInitiate ==
    \E n \in NetNodes : \E p \in NetNodes \ {n}, tb \in BOOLEAN :
        /\ n = initiated
        /\ initiated' = initiated + 1
        /\ NetLocal(n, SetInitiate(p, tb))
        /\ UNCHANGED <<gossip_type, state, last, phase, rlast, finished,
                       must_sent, origin, tie_lost,
                       wire_count, script, trace>>

BothInitiated == initiated = Cardinality(NetNodes)

InFlight(src, dst, msg) ==
    \E i \in DOMAIN chan[<<src, dst>>] : chan[<<src, dst>>][i] = msg

TieBreak ==
    \E n \in NetNodes : \E p \in NetNodes \ {n} :
        /\ BothInitiated
        /\ tie_lost = {}
        /\ NetLocal(n, TieBreakLoser(p))
        /\ tie_lost' = {<<n, InFlight(p, n, "Initiate")>>}
        /\ UNCHANGED <<gossip_type, state, last, phase, rlast, initiated, finished,
                       must_sent, origin,
                       wire_count, script, trace>>

TieDeliver == BothInitiated /\ NetDeliver

TieNext == TieSetInitiate \/ TieBreak \/ NetMustSend \/ TieDeliver

TieSpec == NetInit /\ [][TieNext]_vars

---------------------------------------------------------------------------
(* Properties of the RoundMachine (RoundSpec) *)

\* rlast is an application of Msg(msg) in phase pre under gossip type gt
RoundCase(gt, pre, msg) ==
    gossip_type = gt /\ rlast.action = Msg(msg) /\ rlast.pre = pre

\* the application moved to phase post with effects fx
RoundRow(gt, pre, msg, post, fx) ==
    RoundCase(gt, pre, msg) => rlast.res = RoundOk(post, fx) /\ phase = post

\* C5: RoundMachine::transition agrees with every row of the transition
\* table, in Recent and in Historical mode.
C5_TransitionTable ==
    /\ RoundRow("Recent", Started(TRUE), "AgentDiff", AgentDiffReceived, <<"Agents">>)
    /\ RoundRow("Recent", Started(FALSE), "AgentDiff", AgentsReceived(FALSE), <<"OpDiff">>)
    /\ RoundRow("Recent", AgentDiffReceived, "Agents", AgentsReceived(FALSE), <<"OpDiff">>)
    /\ RoundRow("Recent", Started(TRUE), "OpDiff", OpDiffReceived, <<"Ops">>)
    /\ RoundRow("Recent", AgentsReceived(TRUE), "OpDiff", OpDiffReceived, <<"Ops">>)
    /\ RoundRow("Recent", AgentsReceived(FALSE), "OpDiff", Finished, <<>>)
    /\ RoundRow("Recent", OpDiffReceived, "Ops", Finished, <<>>)
    /\ RoundRow("Historical", Started(TRUE), "OpDiff", OpDiffReceived, <<"Ops">>)
    /\ RoundRow("Historical", Started(FALSE), "OpDiff", OpDiffReceived, <<"Ops">>)
    /\ RoundRow("Historical", OpDiffReceived, "Ops", Finished, <<>>)

\* the early-finish shortcut and the Historical short row have been applied
C5_Witness ==
    \/ RoundCase("Recent", AgentsReceived(FALSE), "OpDiff") /\ phase = Finished
    \/ RoundCase("Historical", Started(FALSE), "OpDiff") /\ phase = OpDiffReceived

\* the rows of the transition table of the specification, as (phase, message)
TableRows(gt) ==
    IF gt = "Recent"
        THEN {<<Started(TRUE), "AgentDiff">>, <<Started(FALSE), "AgentDiff">>,
              <<AgentDiffReceived, "Agents">>, <<Started(TRUE), "OpDiff">>,
              <<AgentsReceived(TRUE), "OpDiff">>, <<AgentsReceived(FALSE), "OpDiff">>,
              <<OpDiffReceived, "Ops">>}
        ELSE {<<Started(TRUE), "OpDiff">>, <<Started(FALSE), "OpDiff">>,
              <<OpDiffReceived, "Ops">>}

\* C6: a wire message other than Close, in a phase other than Finished, that
\* is not a row of the table fails; no new phase and no effects result.
C6_UnlistedFails ==
    (/\ rlast.action[1] = "Msg"
     /\ rlast.action[2] # "Close"
     /\ rlast.pre # Finished
     /\ <<rlast.pre, rlast.action[2]>> \notin TableRows(gossip_type))
        => /\ ~rlast.res.ok
           /\ rlast.res = RoundErr("invalid transition")
           /\ phase = rlast.pre

\* an Initiate in a live phase, and an OpDiff in Started(false) of Recent, failed
C6_Witness ==
    /\ ~rlast.res.ok
    /\ \/ rlast.action = Msg("Initiate") /\ rlast.pre = AgentDiffReceived
       \/ RoundCase("Recent", Started(FALSE), "OpDiff")
       \/ RoundCase("Historical", Started(FALSE), "AgentDiff")

\* C7: Finished is terminal: every wire message in Finished fails, Close
\* included, and no action leads from Finished to another phase.
C7_FinishedTerminal ==
    (rlast.action # <<"None">> /\ rlast.pre = Finished)
        => /\ phase = Finished
           /\ rlast.action[1] = "Msg" => rlast.res = RoundErr("terminal")
           /\ is_terminal(phase)

\* Close was applied in Finished and failed
C7_Witness ==
    rlast.action = Msg("Close") /\ rlast.pre = Finished /\ ~rlast.res.ok

\* C27: MustSend on a phase whose flag is already true (Started(true) in
\* either mode, AgentsReceived(true) in Recent mode) fails with
\* "must_send already set" and leaves the phase as it was.
C27_MustSendTwiceFails ==
    (/\ rlast.action = RoundMustSend
     /\ \/ rlast.pre = Started(TRUE)
        \/ gossip_type = "Recent" /\ rlast.pre = AgentsReceived(TRUE))
        => /\ ~rlast.res.ok
           /\ rlast.res.err = "must_send already set"
           /\ phase = rlast.pre

\* a second MustSend was refused in AgentsReceived(true)
C27_Witness ==
    /\ rlast.action = RoundMustSend
    /\ rlast.pre = AgentsReceived(TRUE)
    /\ gossip_type = "Recent"
    /\ ~rlast.res.ok

\* C28 as stated: MustSend in a phase that carries no flag for the gossip
\* type (AgentDiffReceived, OpDiffReceived, Finished; AgentsReceived in
\* Historical mode) does not succeed.
C28_MustSendOnlyInFlagPhases ==
    (/\ rlast.action = RoundMustSend
     /\ \/ rlast.pre \in {AgentDiffReceived, OpDiffReceived, Finished}
        \/ gossip_type = "Historical" /\ rlast.pre[1] = "AgentsReceived")
        => ~rlast.res.ok

---------------------------------------------------------------------------
(* Properties of a round over its history (RoundHistSpec) *)

\* the last step took the round from another phase to Finished
ReachedFinished ==
    /\ rlast.action # <<"None">>
    /\ rlast.res.ok
    /\ rlast.pre # Finished
    /\ rlast.res.phase = Finished

\* the last step was the early-termination shortcut
Shortcut ==
    ReachedFinished /\ rlast.action = Msg("OpDiff") /\ rlast.pre = AgentsReceived(FALSE)

\* C29 as stated: in Recent mode, a round on which MustSend has set the
\* flag (in Started or in AgentsReceived) never finishes by the shortcut
\* AgentsReceived(false) + OpDiff.
C29_MustSendExcludesShortcut ==
    (gossip_type = "Recent" /\ Shortcut)
        => rlast.sent \cap {"Started", "AgentsReceived"} = {}

\* C29 amended: in Recent mode, a round on which MustSend has succeeded in
\* phase AgentsReceived never finishes by the shortcut: it reaches Finished
\* only by Ops in OpDiffReceived or by Close.  (A flag set in Started is
\* dropped on the way to AgentsReceived(false).)
C29_MustSendInAgentsReceivedCommits ==
    (gossip_type = "Recent" /\ ReachedFinished /\ "AgentsReceived" \in rlast.sent)
        => /\ ~Shortcut
           /\ \/ rlast.action = Msg("Ops") /\ rlast.pre = OpDiffReceived
              \/ rlast.action = Msg("Close")

\* after MustSend in Started and again in AgentsReceived the round finished
\* by Ops
C29_Witness ==
    /\ gossip_type = "Recent"
    /\ ReachedFinished
    /\ rlast.sent = {"Started", "AgentsReceived"}
    /\ rlast.action = Msg("Ops")

\* Started < AgentDiffReceived < AgentsReceived < OpDiffReceived < Finished
Rank(ph) ==
    IF ph[1] = "Started" THEN 0
    ELSE IF ph[1] = "AgentDiffReceived" THEN 1
    ELSE IF ph[1] = "AgentsReceived" THEN 2
    ELSE IF ph[1] = "OpDiffReceived" THEN 3
    ELSE 4

\* C36: every wire message the RoundMachine accepts moves the round to a
\* strictly later phase and MustSend keeps the phase, so a session, which
\* starts in Started(false), accepts at most 4 wire messages in Recent mode
\* and at most 2 in Historical mode, whatever is applied to it.
C36_MonotoneProgress ==
    /\ (rlast.action[1] = "Msg" /\ rlast.res.ok) => Rank(phase) > Rank(rlast.pre)
    /\ (rlast.action = RoundMustSend /\ rlast.res.ok) => phase[1] = rlast.pre[1]
    /\ wire_count <= IF gossip_type = "Recent" THEN 4 ELSE 2

\* a Recent round went the long way: four wire messages and a MustSend
C36_Witness ==
    /\ gossip_type = "Recent"
    /\ wire_count = 4
    /\ phase = Finished
    /\ must_sent # {}

---------------------------------------------------------------------------
(* Properties of the PeerMachine (Spec) *)

\* last is Incoming {from, msg}
IsIncoming(from, msg) == last.action = Incoming(from, msg)

\* a session for p and an initiate target p are held together
Coexist(s, p) == tgt_is(s, p) /\ contains_key(s.rounds, p)

\* C1 as stated: an initiate target p implies no session for p.
C1_TargetExcludesSession ==
    \A p \in NodeId : tgt_is(state, p) => ~contains_key(state.rounds, p)

\* C1 amended: a session for p comes to be held together with the initiate
\* target p only by Incoming(p, Accept), which creates the session under the
\* pending target, or by SetInitiate(p, _) while the session exists; in
\* particular no Incoming(p, Initiate) creates a session under a target p.
C1_CoexistOnlyByAcceptOrSetInitiate ==
    \A p \in NodeId :
        (Coexist(state, p) /\ ~Coexist(last.pre, p))
            => \/ IsIncoming(p, "Accept")
               \/ last.action[1] = "SetInitiate" /\ last.action[2] = p

\* an Accept from the pending target created a session under that target
C1_Witness ==
    \E p \in NodeId :
        /\ IsIncoming(p, "Accept")
        /\ ~Coexist(last.pre, p)
        /\ Coexist(state, p)

\* C8 as stated: an Accept from the pending target, with no session, creates
\* the session in Started(true), keeps the target, emits the first diff.
C8_AcceptCreatesStartedTrue ==
    \A p \in NodeId :
        (IsIncoming(p, "Accept") /\ ~contains_key(last.pre.rounds, p) /\ tgt_is(last.pre, p))
            => /\ last.res.ok
               /\ contains_key(state.rounds, p)
               /\ state.rounds[p] = Started(TRUE)
               /\ state.initiate_tgt = last.pre.initiate_tgt
               /\ last.res.fx = <<<<p, first_diff(gossip_type)>>>>

\* C9: an Initiate from a peer with no session that is not the initiate
\* target creates the session in Started(false), leaves the target unchanged
\* and emits Accept, then the first diff of the gossip type, to that peer.
C9_InitiateCreatesSession ==
    \A p \in NodeId :
        (IsIncoming(p, "Initiate") /\ ~contains_key(last.pre.rounds, p) /\ ~tgt_is(last.pre, p))
            => /\ last.res.ok
               /\ state.rounds = insert(last.pre.rounds, p, Started(FALSE))
               /\ state.initiate_tgt = last.pre.initiate_tgt
               /\ last.res.fx =
                    <<<<p, "Accept">>,
                      <<p, IF gossip_type = "Recent" THEN "AgentDiff" ELSE "OpDiff">>>>

\* the case happened, in Historical mode, under a target for another peer
C9_Witness ==
    \E p \in NodeId :
        /\ IsIncoming(p, "Initiate")
        /\ ~contains_key(last.pre.rounds, p)
        /\ last.pre.initiate_tgt # None
        /\ gossip_type = "Historical"
        /\ contains_key(state.rounds, p)

\* the unresolved mutual initiation: Initiate from the pending target
MutualInitiate(p) ==
    IsIncoming(p, "Initiate") /\ ~contains_key(last.pre.rounds, p) /\ tgt_is(last.pre, p)

\* C10 as stated: an Initiate from the pending target, with no session,
\* fails; no session is created and no Accept is emitted.
C10_MutualInitiateFails ==
    \A p \in NodeId : MutualInitiate(p) => ~last.res.ok /\ state = last.pre

\* C10 amended: an Initiate from the pending target, with no session,
\* succeeds as a no-op: the state is unchanged (no session, the target is
\* kept) and no effect, hence no Accept, is emitted.
C10_MutualInitiateIsNoOp ==
    \A p \in NodeId :
        MutualInitiate(p) => last.res.ok /\ last.res.fx = <<>> /\ state = last.pre

\* the case happened while other peers had sessions
C10_Witness ==
    \E p \in NodeId : MutualInitiate(p) /\ DOMAIN state.rounds # {}

\* the round messages that are neither handshake nor Close
RoundData == {"AgentDiff", "Agents", "OpDiff", "Ops"}

\* an Initiate or Accept from a peer that already has a session
DuplicateHandshake(p) ==
    (IsIncoming(p, "Initiate") \/ IsIncoming(p, "Accept")) /\ contains_key(last.pre.rounds, p)

\* C11: an Initiate or an Accept from a peer that already has a session
\* succeeds as a no-op: no effect is emitted and the whole coordinator state
\* (the session's phase included) is unchanged.
C11_DuplicateHandshakeIsNoOp ==
    \A p \in NodeId :
        DuplicateHandshake(p) => last.res.ok /\ last.res.fx = <<>> /\ state = last.pre

\* a duplicate Accept from the pending target met a session that had moved on
C11_Witness ==
    \E p \in NodeId :
        /\ IsIncoming(p, "Accept")
        /\ tgt_is(last.pre, p)
        /\ contains_key(last.pre.rounds, p)
        /\ last.pre.rounds[p] # Started(FALSE)
        /\ state.rounds[p] = last.pre.rounds[p]

\* an Accept from a peer with no session that is not the initiate target
UnsolicitedAccept(p) ==
    IsIncoming(p, "Accept") /\ ~contains_key(last.pre.rounds, p) /\ ~tgt_is(last.pre, p)

\* C12: an Accept from a peer with no session, while the initiate target is
\* None or another peer, fails as unsolicited and creates no session.
C12_UnsolicitedAcceptFails ==
    \A p \in NodeId :
        UnsolicitedAccept(p)
            => /\ ~last.res.ok
               /\ last.res.err = "invalid Accept from node that is not initiate_tgt"
               /\ state = last.pre

\* the Accept was refused while another peer was the target
C12_Witness ==
    \E p \in NodeId :
        /\ UnsolicitedAccept(p)
        /\ last.pre.initiate_tgt # None
        /\ ~last.res.ok
        /\ ~contains_key(state.rounds, p)

\* C13: a Close from p always succeeds with no effect; afterwards p has no
\* session and the sessions of all other peers are as before (so with no
\* session for p the map is unchanged).
C13_CloseRemovesSession ==
    \A p \in NodeId :
        IsIncoming(p, "Close")
            => /\ last.res.ok
               /\ last.res.fx = <<>>
               /\ DOMAIN state.rounds = DOMAIN last.pre.rounds \ {p}
               /\ \A q \in DOMAIN state.rounds : state.rounds[q] = last.pre.rounds[q]

\* a Close removed a live session while another peer kept its own
C13_Witness ==
    \E p \in NodeId :
        /\ IsIncoming(p, "Close")
        /\ contains_key(last.pre.rounds, p)
        /\ ~is_terminal(last.pre.rounds[p])
        /\ ~contains_key(state.rounds, p)
        /\ DOMAIN state.rounds # {}

\* C14 as stated: a Close from the peer the initiate target names clears the
\* target.
C14_CloseClearsTarget ==
    \A p \in NodeId :
        (IsIncoming(p, "Close") /\ tgt_is(last.pre, p)) => state.initiate_tgt = None

\* a round message from a peer that has a session
Delegated(p, m) == IsIncoming(p, m) /\ contains_key(last.pre.rounds, p)

\* C15: a round message m from a peer p with a session, on which the
\* RoundMachine succeeds: if the new phase is Finished the session is removed
\* and the target is cleared iff it named p; otherwise the session holds the
\* new phase and the target is unchanged; other sessions are untouched and the
\* effects are the RoundMachine's, in order, each addressed to p.
C15_DelegationFollowsRoundMachine ==
    \A p \in NodeId, m \in RoundData :
        Delegated(p, m) =>
            LET r == RoundTransition(gossip_type, last.pre.rounds[p], Msg(m))
            IN  r.ok =>
                    /\ last.res.ok
                    /\ last.res.fx = [i \in DOMAIN r.fx |-> <<p, r.fx[i]>>]
                    /\ \A q \in NodeId \ {p} :
                        /\ contains_key(state.rounds, q) = contains_key(last.pre.rounds, q)
                        /\ contains_key(state.rounds, q) => state.rounds[q] = last.pre.rounds[q]
                    /\ IF r.phase = Finished
                          THEN /\ ~contains_key(state.rounds, p)
                               /\ state.initiate_tgt =
                                    IF tgt_is(last.pre, p) THEN None ELSE last.pre.initiate_tgt
                          ELSE /\ contains_key(state.rounds, p)
                               /\ state.rounds[p] = r.phase
                               /\ state.initiate_tgt = last.pre.initiate_tgt

\* a round message finished the session of the pending target
C15_Witness ==
    \E p \in NodeId, m \in RoundData :
        /\ Delegated(p, m)
        /\ tgt_is(last.pre, p)
        /\ last.res.ok
        /\ ~contains_key(state.rounds, p)
        /\ state.initiate_tgt = None

\* C16: a round message, or MustSend, for a peer with no session fails with
\* "no round" and changes nothing.
C16_NoSessionNoRound ==
    \A p \in NodeId :
        (/\ (\E m \in RoundData : IsIncoming(p, m)) \/ last.action = MustSend(p)
         /\ ~contains_key(last.pre.rounds, p))
            => ~last.res.ok /\ last.res.err = "no round" /\ state = last.pre

\* MustSend for a peer with no session was refused while others had sessions
C16_Witness ==
    \E p \in NodeId :
        /\ last.action = MustSend(p)
        /\ ~contains_key(last.pre.rounds, p)
        /\ DOMAIN last.pre.rounds # {}
        /\ ~last.res.ok

\* C18: SetInitiate(p, tb) with no initiate target sets the target to
\* exactly {p, tb}, leaves the sessions unchanged and emits exactly one
\* effect, Initiate addressed to p.
C18_SetInitiateSetsTarget ==
    \A p \in NodeId, tb \in BOOLEAN :
        (last.action = SetInitiate(p, tb) /\ last.pre.initiate_tgt = None)
            => /\ last.res.ok
               /\ state.initiate_tgt = Some([cert |-> p, tie_break |-> tb])
               /\ state.rounds = last.pre.rounds
               /\ last.res.fx = <<<<p, "Initiate">>>>

\* the target was set, with a true tie-break, for a peer that has a session
C18_Witness ==
    \E p \in NodeId :
        /\ last.action = SetInitiate(p, TRUE)
        /\ last.pre.initiate_tgt = None
        /\ contains_key(last.pre.rounds, p)
        /\ tgt_is(state, p)

\* SetInitiate while an initiate target is already held
BusyInitiate == last.action[1] = "SetInitiate" /\ last.pre.initiate_tgt # None

\* C19: SetInitiate while a target is held leaves the coordinator state
\* unchanged: the held target keeps its peer and tie-break, the sessions stay.
C19_BusyInitiateKeepsState ==
    BusyInitiate => last.res.ok /\ state = last.pre

\* a second SetInitiate named another peer and another tie-break
C19_Witness ==
    /\ BusyInitiate
    /\ last.action[2] # last.pre.initiate_tgt[1].cert
    /\ last.action[3] # last.pre.initiate_tgt[1].tie_break
    /\ DOMAIN state.rounds # {}

\* C20 as stated: SetInitiate while a target is held emits no effect, so no
\* Initiate is sent.
C20_BusyInitiateEmitsNothing ==
    BusyInitiate => last.res.fx = <<>>

\* C22: Timeout(p) never fails and emits no effect; afterwards p has no
\* session and is not the initiate target; the sessions of all other peers,
\* and a target naming another peer, are as before.
C22_TimeoutRemovesRound ==
    \A p \in NodeId :
        last.action = Timeout(p)
            => /\ last.res.ok
               /\ last.res.fx = <<>>
               /\ ~contains_key(state.rounds, p)
               /\ ~tgt_is(state, p)
               /\ DOMAIN state.rounds = DOMAIN last.pre.rounds \ {p}
               /\ \A q \in DOMAIN state.rounds : state.rounds[q] = last.pre.rounds[q]
               /\ ~tgt_is(last.pre, p) => state.initiate_tgt = last.pre.initiate_tgt

\* a timeout removed the session of the pending target and cleared the
\* target while another peer kept its session
C22_Witness ==
    \E p \in NodeId :
        /\ last.action = Timeout(p)
        /\ contains_key(last.pre.rounds, p)
        /\ tgt_is(last.pre, p)
        /\ state.initiate_tgt = None
        /\ DOMAIN state.rounds # {}

\* C23: TieBreakLoser(p) while the initiate target names p succeeds, clears
\* the target, leaves every session (that of p included) unchanged and emits
\* no effect.
C23_TieBreakLoserClearsTarget ==
    \A p \in NodeId :
        (last.action = TieBreakLoser(p) /\ tgt_is(last.pre, p))
            => /\ last.res.ok
               /\ last.res.fx = <<>>
               /\ state.initiate_tgt = None
               /\ state.rounds = last.pre.rounds

\* the target was given up while a session for the same peer was live
C23_Witness ==
    \E p \in NodeId :
        /\ last.action = TieBreakLoser(p)
        /\ tgt_is(last.pre, p)
        /\ contains_key(last.pre.rounds, p)
        /\ contains_key(state.rounds, p)
        /\ state.initiate_tgt = None

\* the two errors of the TieBreakLoser arm
TieBreakError ==
    {"tie break winner is not the initiate target", "there was no initiate target"}

\* C24: TieBreakLoser(p) while the initiate target is None or names another
\* peer fails, and the target held before the call is still held.
C24_TieBreakLoserMismatchFails ==
    \A p \in NodeId :
        (last.action = TieBreakLoser(p) /\ ~tgt_is(last.pre, p))
            => /\ ~last.res.ok
               /\ last.res.err \in TieBreakError
               /\ state.initiate_tgt = last.pre.initiate_tgt
               /\ state = last.pre

\* the call was refused while the target named another peer
C24_Witness ==
    \E p \in NodeId :
        /\ last.action = TieBreakLoser(p)
        /\ last.pre.initiate_tgt # None
        /\ ~tgt_is(last.pre, p)
        /\ ~last.res.ok
        /\ state.initiate_tgt # None

\* the phases in which MustSend may set the flag, by gossip type
FlagPhase(gt, ph) ==
    \/ gt = "Recent" /\ ph[1] \in {"Started", "AgentsReceived"}
    \/ gt = "Historical" /\ ph[1] = "Started"

\* C26: MustSend for a session in Started(false) or AgentsReceived(false)
\* (Recent), or Started(false) (Historical), succeeds, emits no effect and
\* changes only the flag of that session from false to true; the session
\* stays in the map, other sessions and the target are unchanged.
C26_MustSendSetsFlag ==
    \A p \in NodeId :
        (/\ last.action = MustSend(p)
         /\ contains_key(last.pre.rounds, p)
         /\ FlagPhase(gossip_type, last.pre.rounds[p])
         /\ last.pre.rounds[p][2] = FALSE)
            => /\ last.res.ok
               /\ last.res.fx = <<>>
               /\ DOMAIN state.rounds = DOMAIN last.pre.rounds
               /\ state.rounds[p] = <<last.pre.rounds[p][1], TRUE>>
               /\ \A q \in DOMAIN state.rounds \ {p} : state.rounds[q] = last.pre.rounds[q]
               /\ state.initiate_tgt = last.pre.initiate_tgt

\* MustSend raised the flag of a session in AgentsReceived, under a target
C26_Witness ==
    \E p \in NodeId :
        /\ last.action = MustSend(p)
        /\ contains_key(last.pre.rounds, p)
        /\ last.pre.rounds[p] = AgentsReceived(FALSE)
        /\ state.rounds[p] = AgentsReceived(TRUE)
        /\ state.initiate_tgt # None

\* C30: in any step that changes an initiate target naming p, the new
\* target is None and the step is Timeout(p), TieBreakLoser(p), or an
\* Incoming from p on whose message the RoundMachine reached Finished; the
\* target never passes directly from one peer to another.
C30_TargetClearedOnlyByEnd ==
    \A p \in NodeId :
        (tgt_is(last.pre, p) /\ state.initiate_tgt # last.pre.initiate_tgt)
            => /\ state.initiate_tgt = None
               /\ \/ last.action = Timeout(p)
                  \/ last.action = TieBreakLoser(p)
                  \/ \E m \in RoundMsg :
                        /\ Delegated(p, m)
                        /\ RoundTransition(gossip_type, last.pre.rounds[p], Msg(m)).ok
                        /\ RoundTransition(gossip_type, last.pre.rounds[p], Msg(m)).phase = Finished

\* the target was cleared by a message that finished the round
C30_Witness ==
    \E p \in NodeId, m \in RoundMsg :
        /\ tgt_is(last.pre, p)
        /\ Delegated(p, m)
        /\ state.initiate_tgt = None
        /\ ~contains_key(state.rounds, p)

\* an event has been applied; its peer is node_id(last.action)
Happened == last.action # <<"None">>

\* C31: an event concerning peer p, whether it succeeds or fails, leaves the
\* session entry of every other peer as it was, and an Incoming, MustSend or
\* Timeout for p does not clear a target that names another peer.
C31_EventsScopedToPeer ==
    Happened =>
        LET p == node_id(last.action)
        IN  /\ \A q \in NodeId \ {p} :
                /\ contains_key(state.rounds, q) = contains_key(last.pre.rounds, q)
                /\ contains_key(state.rounds, q) => state.rounds[q] = last.pre.rounds[q]
            /\ \A q \in NodeId \ {p} :
                (tgt_is(last.pre, q) /\ last.action[1] \in {"Incoming", "MustSend", "Timeout"})
                    => state.initiate_tgt = last.pre.initiate_tgt

\* a message finished the round of p while the target named another peer
\* that has a session of its own
C31_Witness ==
    \E p \in NodeId, q \in NodeId, m \in RoundData :
        /\ p # q
        /\ Delegated(p, m)
        /\ last.res.ok
        /\ ~contains_key(state.rounds, p)
        /\ tgt_is(state, q)
        /\ contains_key(state.rounds, q)

\* C35: no entry of the sessions map holds Finished: a session whose round
\* reaches Finished is removed in the same step.
C35_NoFinishedStored ==
    \A p \in DOMAIN state.rounds : state.rounds[p] # Finished

\* a round message took the round of p to Finished and the entry is gone
C35_Witness ==
    \E p \in NodeId, m \in RoundData :
        /\ Delegated(p, m)
        /\ last.res.ok
        /\ RoundTransition(gossip_type, last.pre.rounds[p], Msg(m)).phase = Finished
        /\ ~contains_key(state.rounds, p)

\* the errors of the PeerMachine and of the RoundMachine under it
Failure ==
    TieBreakError \cup
        {"terminal", "invalid transition", "no round",
         "invalid Accept from node that is not initiate_tgt", "must_send already set"}

C38_HistoricalHasNoAgentPhases ==
    gossip_type = "Historical"
        => /\ \A p \in DOMAIN state.rounds :
                state.rounds[p] \in {Started(FALSE), Started(TRUE), OpDiffReceived}
           /\ (Happened /\ last.res.ok)
                => \A i \in DOMAIN last.res.fx : last.res.fx[i][2] \notin {"AgentDiff", "Agents"}

\* a Historical session answered the handshake with OpDiff while another
\* session stood in OpDiffReceived
C38_Witness ==
    /\ gossip_type = "Historical"
    /\ \E p \in NodeId :
        /\ IsIncoming(p, "Accept")
        /\ last.res.ok
        /\ last.res.fx = <<<<p, "OpDiff">>>>
    /\ \E q \in DOMAIN state.rounds : state.rounds[q] = OpDiffReceived

\* C39: every effect of an event concerning p is addressed to p; an event
\* emits at most two effects; Initiate is emitted only by SetInitiate,
\* Accept only on an incoming Initiate, Close never; a round transition that
\* reaches Finished emits no effect.
C39_EffectsAddressedToPeer ==
    (Happened /\ last.res.ok) =>
        LET p == node_id(last.action)
            fx == last.res.fx
        IN  /\ Len(fx) <= 2
            /\ \A i \in DOMAIN fx :
                /\ fx[i][1] = p
                /\ fx[i][2] = "Initiate" => last.action[1] = "SetInitiate"
                /\ fx[i][2] = "Accept" => IsIncoming(p, "Initiate")
                /\ fx[i][2] # "Close"
            /\ \A m \in RoundData :
                (/\ Delegated(p, m)
                 /\ RoundTransition(gossip_type, last.pre.rounds[p], Msg(m)).phase = Finished)
                    => fx = <<>>

\* an incoming Initiate was answered with two effects while the target
\* named another peer
C39_Witness ==
    \E p \in NodeId :
        /\ IsIncoming(p, "Initiate")
        /\ last.res.ok
        /\ Len(last.res.fx) = 2
        /\ last.pre.initiate_tgt # None
        /\ ~tgt_is(last.pre, p)

---------------------------------------------------------------------------
(* Properties of the PeerMachine over its history (HistSpec) *)

\* a message from a peer whose session finished, no session created since
AfterFinished(p, m) == IsIncoming(p, m) /\ p \in last.fin

\* C17 as stated: after the session for p finished and was removed, every
\* message of the wire vocabulary from p fails with "no round" until a new
\* session for p is created.
C17_AfterFinishedAllFail ==
    \A p \in NodeId, m \in RoundMsg :
        AfterFinished(p, m) => ~last.res.ok /\ last.res.err = "no round"

\* C17 amended: after the session for p finished and was removed, every
\* round message other than the handshake and Close (AgentDiff, Agents,
\* OpDiff, Ops) from p fails with "no round" and changes nothing, until a
\* new session for p is created.
C17_AfterFinishedRoundDataFails ==
    \A p \in NodeId, m \in RoundData :
        AfterFinished(p, m)
            => ~last.res.ok /\ last.res.err = "no round" /\ state = last.pre

\* a late Ops arrived after the session finished, other events in between
C17_Witness ==
    \E p \in NodeId :
        /\ AfterFinished(p, "Ops")
        /\ ~last.res.ok
        /\ last.pre.initiate_tgt # None
        /\ DOMAIN last.pre.rounds # {}

---------------------------------------------------------------------------
(* Properties of the PeerMachine over the origin of its sessions (OriginSpec) *)

\* the peers with a live session whose origin is one of origins
AcceptCreated(origins) ==
    {p \in NodeId : contains_key(state.rounds, p) /\ origin[p] \in origins}

\* the initiate target, as a set of at most one peer
TargetPeer == {p \in NodeId : tgt_is(state, p)}

\* C21 as stated: at most one peer is the initiate target or has a live
\* session created by an Accept.
C21_AtMostOneSelfInitiated ==
    Cardinality(TargetPeer \cup AcceptCreated({"Accept", "Yielded"})) <= 1

\* C21 amended: at most one peer is the initiate target or has a live
\* session created by an Accept whose target no TieBreakLoser has given up
\* since; a session whose target was given up stays live beside the next
\* self-initiated round.
C21_AtMostOneUnyieldedSelfInitiated ==
    Cardinality(TargetPeer \cup AcceptCreated({"Accept"})) <= 1

\* a round this node proposed is live under its target beside an earlier
\* one whose target was given up
C21_Witness ==
    \E p \in NodeId, q \in NodeId :
        /\ p # q
        /\ AcceptCreated({"Yielded"}) = {p}
        /\ AcceptCreated({"Accept"}) = {q}
        /\ tgt_is(state, q)

---------------------------------------------------------------------------
(* Properties of the replayed scenarios (ReplaySpec) *)

\* the replay has applied every event it is going to apply
ReplayDone == script = << >> /\ trace # << >>

\* the effects of step i of the replay, none if the step failed
TraceFx(i) == IF trace[i].res.ok THEN trace[i].res.fx ELSE << >>

\* what Scenario A states after each of its six events: the sessions and
\* the effects
ExpectA(b) ==
    << [rounds |-> << >>,                        fx |-> << <<b, "Initiate">> >>],
       [rounds |-> b :> Started(TRUE),           fx |-> << <<b, "AgentDiff">> >>],
       [rounds |-> b :> AgentDiffReceived,       fx |-> << <<b, "Agents">> >>],
       [rounds |-> b :> AgentsReceived(FALSE),   fx |-> << <<b, "OpDiff">> >>],
       [rounds |-> b :> OpDiffReceived,          fx |-> << <<b, "Ops">> >>],
       [rounds |-> << >>,                        fx |-> << >>] >>

\* C33: in Recent mode the replay of Scenario A with any peer B succeeds at
\* every one of its six events, the session of B passes through
\* Started(true), AgentDiffReceived, AgentsReceived(false), OpDiffReceived,
\* the effects are [Initiate], [AgentDiff], [Agents], [OpDiff], [Ops], []
\* addressed to B, and it ends with no sessions and no initiate target.
C33_ScenarioA ==
    \A b \in NodeId :
        ( /\ gossip_type = "Recent"
          /\ ReplayDone
          /\ trace[1].action[1] = "SetInitiate"
          /\ trace[1].action[2] = b )
        => /\ Len(trace) = 6
           /\ \A i \in 1 .. 6 :
                /\ trace[i].res.ok
                /\ trace[i].post.rounds = ExpectA(b)[i].rounds
                /\ TraceFx(i) = ExpectA(b)[i].fx
           /\ state = PeerState_new

\* C34: in Historical mode the replay of Scenario B with any peer succeeds
\* at every event: Initiate creates the session in Started(false) with
\* effects [Accept, OpDiff], OpDiff gives [Ops] and OpDiffReceived, Ops
\* gives no effect and removes the session, with or without a MustSend
\* between the Initiate and the OpDiff.
C34_ScenarioB ==
    \A p \in NodeId :
        ( /\ gossip_type = "Historical"
          /\ ReplayDone
          /\ trace[1].action = Incoming(p, "Initiate") )
        => LET n == Len(trace)
           IN  /\ n \in {3, 4}
               /\ \A i \in 1 .. n : trace[i].res.ok
               /\ trace[n - 1].action = Incoming(p, "OpDiff")
               /\ trace[n].action = Incoming(p, "Ops")
               /\ (n = 4) => trace[2].action = MustSend(p)
               /\ trace[1].post.rounds = p :> Started(FALSE)
               /\ TraceFx(1) = << <<p, "Accept">>, <<p, "OpDiff">> >>
               /\ trace[n - 1].post.rounds = p :> OpDiffReceived
               /\ TraceFx(n - 1) = << <<p, "Ops">> >>
               /\ p \notin DOMAIN trace[n].post.rounds
               /\ TraceFx(n) = << >>

\* a Historical short round with a MustSend in it has been replayed to its end
C34_Witness ==
    /\ gossip_type = "Historical"
    /\ ReplayDone
    /\ Len(trace) = 4
    /\ trace[1].action[3] = "Initiate"
    /\ trace[2].action[1] = "MustSend"
    /\ trace[4].res.ok
    /\ state.rounds = << >>

---------------------------------------------------------------------------
(* Properties of the network (NetSpec, LiveSpec) *)

ProtocolViolation == {"terminal", "invalid transition"}

\* C2 as stated: no delivery of a message emitted by a peer fails with an
\* invalid (mode, phase, message) transition: no message at the head of a
\* link is one its receiver rejects as a protocol violation.
C2_NoIllegalSequencing ==
    \A l \in Links :
        chan[l] # <<>> => DeliveryResult(l[1], l[2]).err \notin ProtocolViolation

\* C3: whenever the initiate target of a node is p, a later state is
\* reached in which its initiate target is not p.
C3_TargetNotHeldForever ==
    \A n \in NetNodes : \A p \in NetNodes \ {n} :
        tgt_is(nodes[n], p) ~> ~tgt_is(nodes[n], p)

\* a target is held for a peer whose round stands one message before Finished
C3_Witness ==
    \E n \in NetNodes : \E p \in NetNodes \ {n} :
        /\ tgt_is(nodes[n], p)
        /\ contains_key(nodes[n].rounds, p)
        /\ nodes[n].rounds[p] = OpDiffReceived

\* C4: every session a node holds for a peer is eventually removed.
C4_EveryRoundTerminates ==
    \A n \in NetNodes : \A p \in NetNodes \ {n} :
        contains_key(nodes[n].rounds, p) ~> ~contains_key(nodes[n].rounds, p)

\* both ends hold a session of the same round, one end rejects the next message
C4_Witness ==
    \E l \in Links :
        /\ contains_key(nodes[l[1]].rounds, l[2])
        /\ contains_key(nodes[l[2]].rounds, l[1])
        /\ chan[l] # <<>>
        /\ ~DeliveryResult(l[1], l[2]).ok

---------------------------------------------------------------------------
(* Properties of mutual initiation (TieSpec) *)

Quiescent == \A l \in Links : chan[l] = <<>>

\* the next message from src to dst is msg
NextIs(src, dst, msg) == chan[<<src, dst>>] # <<>> /\ Head(chan[<<src, dst>>]) = msg

\* mutual initiation between loser a and winner b resolves:
\*  - b's Initiate, when a receives it, leaves a with a session for b, and
\*    creates it with an Accept as first effect unless a already has one;
\*  - that Accept, when b receives it, is processed without failure and
\*    both nodes then hold a session for each other;
\*  - b is never left with its target pending, no session and nothing in
\*    flight (its Initiate dropped).
Resolves(a, b) ==
    /\ NextIs(b, a, "Initiate") =>
            LET r == DeliveryResult(b, a)
            IN  /\ r.ok
                /\ contains_key(r.state.rounds, b)
                /\ \/ contains_key(nodes[a].rounds, b)
                   \/ r.fx # <<>> /\ r.fx[1] = <<b, "Accept">>
    /\ NextIs(a, b, "Accept") =>
            LET r == DeliveryResult(a, b)
            IN  /\ r.ok
                /\ contains_key(r.state.rounds, a)
                /\ contains_key(nodes[a].rounds, b)
    /\ Quiescent => ~(tgt_is(nodes[b], a) /\ ~contains_key(nodes[b].rounds, a))

\* C25 as stated: after both nodes initiated toward each other and one of
\* them received TieBreakLoser, the mutual initiation resolves in every
\* interleaving of the deliveries.
C25_TieBreakResolves ==
    \A t \in tie_lost : \A b \in NetNodes \ {t[1]} : Resolves(t[1], b)

\* C25 amended: the mutual initiation resolves in every interleaving in
\* which the loser receives TieBreakLoser before the winner's Initiate is
\* delivered to it; an Initiate delivered earlier is dropped by the loser,
\* whose target still names the winner.
C25_TimelyTieBreakResolves ==
    \A t \in tie_lost : \A b \in NetNodes \ {t[1]} : t[2] => Resolves(t[1], b)

\* after a timely tie-break the winner got its Accept: both nodes hold a
\* session for each other and the winner still holds its target
C25_Witness ==
    \E t \in tie_lost : \E b \in NetNodes \ {t[1]} :
        /\ t[2]
        /\ contains_key(nodes[t[1]].rounds, b)
        /\ contains_key(nodes[b].rounds, t[1])
        /\ tgt_is(nodes[b], t[1])
        /\ nodes[t[1]].initiate_tgt = None

====
